---------------------------- MODULE Spec2Model ----------------------------
(***************************************************************************)
(* A model of the preview tool: the cell transpiler's entry point with its *)
(* golden/snapshot test, the CLI's build command, the live-reload server   *)
(* (Server._handleConnection and handleWatch) and the ObservableApiClient  *)
(* request methods.  Each part has its own specification (SpecTranspile,   *)
(* SpecSnapshot, SpecBuild, SpecServer, SpecApi) over its own variables.   *)
(***************************************************************************)
EXTENDS Integers, Sequences, FiniteSets, TLC

VARIABLES
    \* the transpiler's callers (SpecTranspile)
    tSrc, tCalls, tFirst, tLast,
    \* the snapshot test (SpecSnapshot)
    envCI, inputs, outDir, lastTest,
    \* build (SpecBuild)
    bFiles, bOutput, bDisk, bBlocked, bPc, bI, bJ, bSources, bDirs, bWritten, bError,
    \* the live-reload server (SpecServer)
    fileHash, events, sockStatus, sockUrl, handled, watcher, active, helloHash,
    currentHash, pending, sent, threw,
    \* ObservableApiClient (SpecApi)
    apiPc, apiMethod, apiResponse, apiParsed, apiOutcome, apiLog,
    \* the CLI entry point (SpecMain)
    argv, mPc, mContext, mServer, mUsage, mExit

trVars == <<tSrc, tCalls, tFirst, tLast>>
snapVars == <<envCI, inputs, outDir, lastTest>>
buildVars ==
    <<bFiles, bOutput, bDisk, bBlocked, bPc, bI, bJ, bSources, bDirs, bWritten, bError>>
srvVars ==
    <<fileHash, events, sockStatus, sockUrl, handled, watcher, active, helloHash,
      currentHash, pending, sent, threw>>
apiVars == <<apiPc, apiMethod, apiResponse, apiParsed, apiOutcome, apiLog>>
mainVars == <<argv, mPc, mContext, mServer, mUsage, mExit>>
vars == <<trVars, snapVars, buildVars, srvVars, apiVars, mainVars>>

\* what each part leaves alone
notTr == <<snapVars, buildVars, srvVars, apiVars, mainVars>>
notSnap == <<trVars, buildVars, srvVars, apiVars, mainVars>>
notBuild == <<trVars, snapVars, srvVars, apiVars, mainVars>>
notSrv == <<trVars, snapVars, buildVars, apiVars, mainVars>>
notApi == <<trVars, snapVars, buildVars, srvVars, mainVars>>
notMain == <<trVars, snapVars, srvVars, apiVars>>

None == "none"

(***************************************************************************)
(* Bounds.                                                                 *)
(***************************************************************************)
\* top-level statements of a cell
MaxStmts == 2
\* the document-relative indexes 0..MaxIndex
MaxIndex == 1
\* transpile calls followed in one behaviour
MaxCalls == 3
\* source paths on the command line
MaxFiles == 2
\* file-system events on the watched file
MaxEvents == 2
\* messages a client sends on one socket
MaxMessages == 2

(***************************************************************************)
(* Cells.  A cell is a sequence of top-level statements over a small       *)
(* abstract syntax: every statement and expression is a record with the    *)
(* same fields, the unused ones left empty.                                *)
(***************************************************************************)
Names == {"x", "y"}

Indexes == 0..MaxIndex

E(kind, name, param, async) ==
    [kind |-> kind, name |-> name, param |-> param, async |-> async]

\* 1, x, await x, typeof y, (x) => x, (x) => y, async (x) => await y
Exprs ==
    {E("lit", "", "", FALSE), E("ref", "x", "", FALSE), E("ref", "y", "", FALSE),
     E("await", "x", "", FALSE), E("typeof", "y", "", FALSE),
     E("fn", "x", "x", FALSE), E("fn", "y", "x", FALSE),
     E("fnawait", "y", "x", TRUE)}

S(kind, name, expr) == [kind |-> kind, name |-> name, expr |-> expr]

NoExpr == E("lit", "", "", FALSE)

\* e; | let n = e; | import n from "mod"; | for await (const y of x) {} |
\* { let x = 1 } | export ...; | an unterminated string
Stmts ==
    {S("expr", "", e) : e \in Exprs}
    \cup {S("let", "x", E("lit", "", "", FALSE)), S("let", "x", E("ref", "y", "", FALSE)),
          S("let", "y", E("ref", "x", "", FALSE))}
    \cup {S("import", "x", NoExpr), S("forawait", "y", E("ref", "x", "", FALSE)),
          S("block", "x", NoExpr), S("export", "x", NoExpr), S("malformed", "", NoExpr)}

Sources == UNION {[1..n -> Stmts] : n \in 1..MaxStmts}

(***************************************************************************)
(* AST Adapter: the first statement the parser cannot accept decides the   *)
(* diagnostic, which carries its offset.                                   *)
(***************************************************************************)
RECURSIVE FirstBad(_, _)
FirstBad(source, i) ==
    IF i > Len(source) THEN 0
    ELSE IF source[i].kind \in {"malformed", "export"} THEN i
    ELSE FirstBad(source, i + 1)

parse(source) ==
    LET i == FirstBad(source, 1) IN
    IF i = 0 THEN [ok |-> TRUE, error |-> None, offset |-> 0]
    ELSE [ok |-> FALSE,
          error |-> IF source[i].kind = "malformed" THEN "ParseError" ELSE "UnsupportedSyntax",
          offset |-> i]

(***************************************************************************)
(* Binding Collector: the top-level declarations in order of declaration;  *)
(* a static import's local name is a top-level binding of the rewritten    *)
(* body.  Nested declarations (a block's, a loop header's) are local.      *)
(***************************************************************************)
IsTopLevelDeclaration(s) == s.kind \in {"let", "import"}

RECURSIVE CollectBindings(_, _)
CollectBindings(source, i) ==
    IF i > Len(source) THEN <<>>
    ELSE IF IsTopLevelDeclaration(source[i])
         THEN <<source[i].name>> \o CollectBindings(source, i + 1)
         ELSE CollectBindings(source, i + 1)

Range(seq) == {seq[i] : i \in 1..Len(seq)}

HasDuplicate(seq) == \E i, j \in 1..Len(seq) : i < j /\ seq[i] = seq[j]

IsExpressionCell(source) == Len(source) = 1 /\ source[1].kind = "expr"


(***************************************************************************)
(* Scope Walker: a recursive visit carrying the stack of scope frames.  A  *)
(* use is a record (name, guarded): guarded for the operand of typeof.     *)
(* The top-level frame holds every top-level binding of the cell, wherever *)
(* in the cell it is declared.                                             *)
(***************************************************************************)
TopFrameDeclaratorsOnly(source) ==
    {source[i].name : i \in {j \in 1..Len(source) : source[j].kind = "let"}}

TopFrame(source) == Range(CollectBindings(source, 1))

IsBound(name, frames) == \E k \in 1..Len(frames) : name \in frames[k]

Use(name, guarded) == [name |-> name, guarded |-> guarded]

WalkExpr(e, frames) ==
    IF e.kind = "lit" THEN <<>>
    ELSE LET inner == IF e.kind \in {"fn", "fnawait"}
                      THEN Append(frames, {e.param}) ELSE frames
         IN IF IsBound(e.name, inner) THEN <<>>
            ELSE <<Use(e.name, e.kind = "typeof")>>

WalkStmt(s, top) ==
    IF s.kind \in {"expr", "let"} THEN WalkExpr(s.expr, <<top>>)
    ELSE IF s.kind = "forawait" THEN WalkExpr(s.expr, <<top, {s.name}>>)
    ELSE <<>>

RECURSIVE WalkCell(_, _, _)
WalkCell(source, i, top) ==
    IF i > Len(source) THEN <<>>
    ELSE WalkStmt(source[i], top) \o WalkCell(source, i + 1, top)

\* the free references in order of first use, each optional iff every use
\* of the name is guarded by typeof
RECURSIVE FirstUses(_, _, _)
FirstUses(uses, i, seen) ==
    IF i > Len(uses) THEN <<>>
    ELSE IF uses[i].name \in seen THEN FirstUses(uses, i + 1, seen)
    ELSE <<[name |-> uses[i].name,
            optional |-> \A k \in 1..Len(uses) :
                            uses[k].name = uses[i].name => uses[k].guarded]>>
         \o FirstUses(uses, i + 1, seen \cup {uses[i].name})

FreeReferences(source) == FirstUses(WalkCell(source, 1, TopFrame(source)), 1, {})

(***************************************************************************)
(* Asynchrony: the depth of function nesting at which an await occurs; an  *)
(* await is top-level at depth 0.                                          *)
(***************************************************************************)
AwaitDepthsAnyDepth(s) ==
    IF s.kind = "forawait" THEN {0}
    ELSE IF s.kind \in {"expr", "let"} /\ s.expr.kind \in {"await", "fnawait"} THEN {0}
    ELSE {}

AwaitDepths(s) ==
    IF s.kind = "forawait" THEN {0}
    ELSE IF s.kind \in {"expr", "let"} /\ s.expr.kind = "await" THEN {0}
    ELSE IF s.kind \in {"expr", "let"} /\ s.expr.kind = "fnawait" THEN {1}
    ELSE {}

RECURSIVE HasTopLevelAwaitFrom(_, _)
HasTopLevelAwaitFrom(source, i) ==
    IF i > Len(source) THEN FALSE
    ELSE 0 \in AwaitDepths(source[i]) \/ HasTopLevelAwaitFrom(source, i + 1)

(***************************************************************************)
(* Import Rewriter: every static import leaves the body, replaced by a     *)
(* local binding initialised from the awaited resolver.                    *)
(***************************************************************************)
RECURSIVE CollectImports(_, _)
CollectImports(source, i) ==
    IF i > Len(source) THEN <<>>
    ELSE IF source[i].kind = "import"
         THEN <<[specifier |-> "mod", bindings |-> <<source[i].name>>, kind |-> "static"]>>
              \o CollectImports(source, i + 1)
         ELSE CollectImports(source, i + 1)

RewriteBody(source) ==
    [i \in 1..Len(source) |->
        IF source[i].kind = "import" THEN S("resolve", source[i].name, NoExpr)
        ELSE source[i]]

IsAsync(source) == HasTopLevelAwaitFrom(source, 1) \/ CollectImports(source, 1) # <<>>

(***************************************************************************)
(* Code Generator.                                                         *)
(***************************************************************************)
\* a hidden counter of the calls made so far, in place of the index
SyntheticNameByCounter(index) == "_cell" \o ToString(tCalls)

SyntheticName(index) == "_cell" \o ToString(index)

DeclaredBindings(source, index) ==
    IF IsExpressionCell(source)
    THEN <<[name |-> SyntheticName(index), isMutable |-> FALSE]>>
    ELSE LET names == CollectBindings(source, 1) IN
         [i \in 1..Len(names) |-> [name |-> names[i], isMutable |-> FALSE]]

GenerateSource(source, index) ==
    LET free == FreeReferences(source)
        declared == DeclaredBindings(source, index)
    IN [async |-> IsAsync(source),
        params |-> [i \in 1..Len(free) |-> free[i].name],
        body |-> RewriteBody(source),
        returns |-> [shape |-> IF IsExpressionCell(source) THEN "value" ELSE "record",
                     names |-> [i \in 1..Len(declared) |-> declared[i].name]]]

Diagnostic(error, offset) ==
    [ok |-> FALSE, error |-> error, offset |-> offset]

\* the entry point: a Cell Descriptor, or a diagnostic
transpileJavaScript(source, index) ==
    LET ast == parse(source) IN
    IF ~ast.ok THEN Diagnostic(ast.error, ast.offset)
    ELSE IF HasDuplicate(CollectBindings(source, 1))
    THEN Diagnostic("DuplicateDeclaration", 0)
    ELSE [ok |-> TRUE,
          index |-> index,
          declaredBindings |-> DeclaredBindings(source, index),
          freeReferences |-> FreeReferences(source),
          imports |-> CollectImports(source, 1),
          isAsync |-> IsAsync(source),
          body |-> RewriteBody(source),
          generatedSource |-> GenerateSource(source, index)]

(***************************************************************************)
(* The callers of the entry point: one cell (tSrc) is transpiled again and *)
(* again, at any index, between calls on other cells.  tFirst keeps the    *)
(* first result of each (tSrc, index), tLast the latest call on tSrc.      *)
(***************************************************************************)
NoCall == [called |-> FALSE]

OtherSources ==
    {<<S("expr", "", E("ref", "x", "", FALSE))>>,
     <<S("import", "x", NoExpr), S("expr", "", E("fn", "y", "x", FALSE))>>}

TrInit ==
    /\ tSrc \in Sources
    /\ tCalls = 0
    /\ tFirst = [i \in Indexes |-> NoCall]
    /\ tLast = NoCall

TranspileCell(index) ==
    /\ UNCHANGED notTr
    /\ tCalls < MaxCalls
    /\ LET r == transpileJavaScript(tSrc, index) IN
       /\ tLast' = [index |-> index, nth |-> tCalls + 1, result |-> r]
       /\ tFirst' = IF tFirst[index] = NoCall
                    THEN [tFirst EXCEPT ![index] = [nth |-> tCalls + 1, result |-> r]]
                    ELSE tFirst
    /\ tCalls' = tCalls + 1
    /\ UNCHANGED tSrc

TranspileOther(source, index) ==
    /\ UNCHANGED notTr
    /\ tCalls < MaxCalls
    /\ source \in Sources
    /\ tCalls' = tCalls + 1
    /\ UNCHANGED <<tSrc, tFirst, tLast>>

TrNext ==
    \/ \E index \in Indexes : TranspileCell(index)
    \/ \E source \in OtherSources, index \in Indexes : TranspileOther(source, index)


(***************************************************************************)
(* The snapshot test.  A file of test/input or test/output is named by its *)
(* base and the number of "-changed" suffixes after it: ("a", 1) is        *)
(* a-changed.js.  outDir maps each file of test/output to its content.     *)
(***************************************************************************)
Absent == [absent |-> TRUE]

NoTest == [ran |-> FALSE]

NoError == [thrown |-> None]

File(base, changed) == [base |-> base, changed |-> changed]

\* the entries of test/input: js for a name ending in ".js"
InputEntries ==
    {[file |-> File("a", 0), js |-> TRUE, isFile |-> TRUE],
     [file |-> File("a", 1), js |-> TRUE, isFile |-> TRUE],
     [file |-> File("notes", 0), js |-> FALSE, isFile |-> TRUE],
     [file |-> File("dir", 0), js |-> TRUE, isFile |-> FALSE]}

\* the names the loop registers a test for
Fixtures == {e.file : e \in {d \in InputEntries : d.js /\ d.isFile}}

\* resolve("./test/output", `${basename(name, ".js")}.js`)
OutFile(name) == File(name.base, name.changed)

\* the mismatch written over the expected file itself
DiffFileNoSuffix(name) == File(name.base, name.changed)

\* resolve("./test/output", `${basename(name, ".js")}-changed.js`)
DiffFile(name) == File(name.base, name.changed + 1)

\* the files of test/output the tests look at: <name>.js and <name>-changed.js
OutFiles ==
    UNION {{File(n.base, n.changed), File(n.base, n.changed + 1)} : n \in Fixtures}

\* x | let x = 1; | export ...
FixtureSources ==
    {<<S("expr", "", E("ref", "x", "", FALSE))>>,
     <<S("let", "x", E("lit", "", "", FALSE))>>,
     <<S("export", "x", NoExpr)>>}

Contents ==
    {transpileJavaScript(s, 0).generatedSource :
        s \in {f \in FixtureSources : transpileJavaScript(f, 0).ok}}

EnvCIValues == {"true", "1", None}

\* process.env.CI !== "true"
NotCI == envCI # "true"

SnapInit ==
    /\ envCI \in EnvCIValues
    /\ inputs \in [Fixtures -> FixtureSources]
    /\ outDir \in [OutFiles -> Contents \cup {Absent}]
    /\ lastTest = NoTest

TestRun(name, actual, outcome, error) ==
    [ran |-> TRUE, name |-> name, actual |-> actual, before |-> outDir,
     outcome |-> outcome, error |-> error]

\* assert.ok(equal, `${name} must match snapshot`)
MustMatchSnapshot(name) == [assertion |-> "must match snapshot", name |-> name]

\* it(`test/input/${name}`)
RunTest(name) ==
    LET outfile == OutFile(name)
        diffile == DiffFile(name)
        result == transpileJavaScript(inputs[name], 0)
    IN
    /\ name \in Fixtures
    /\ UNCHANGED <<envCI, inputs>>
    /\ UNCHANGED notSnap
    /\ IF ~result.ok
       THEN /\ lastTest' = TestRun(name, Absent, "failed", [thrown |-> result.error])
            /\ UNCHANGED outDir
       ELSE LET actual == result.generatedSource IN
            IF outDir[outfile] = Absent
            THEN IF NotCI
                 THEN /\ outDir' = [outDir EXCEPT ![outfile] = actual]
                      /\ lastTest' = TestRun(name, actual, "passed", NoError)
                 ELSE /\ UNCHANGED outDir
                      /\ lastTest' = TestRun(name, actual, "failed", [thrown |-> "ENOENT"])
            ELSE LET equal == outDir[outfile] = actual IN
                 /\ outDir' = IF equal
                              THEN IF NotCI THEN [outDir EXCEPT ![diffile] = Absent]
                                   ELSE outDir
                              ELSE [outDir EXCEPT ![diffile] = actual]
                 /\ lastTest' = IF equal THEN TestRun(name, actual, "passed", NoError)
                                ELSE TestRun(name, actual, "failed", MustMatchSnapshot(name))

SnapNext == \E name \in Fixtures : RunTest(name)


(***************************************************************************)
(* build.  A path is a sequence of segments, a segment a stem and an       *)
(* extension: docs/index.md is <<("docs", ""), ("index", "md")>>.          *)
(***************************************************************************)
Seg(stem, ext) == [stem |-> stem, ext |-> ext]

PathA == <<Seg("a", "md")>>
PathDocs == <<Seg("docs", "")>>
PathNotes == <<Seg("notes", "txt")>>
IndexMd == Seg("index", "md")

CliPaths == {PathA, PathDocs, PathNotes}

DiskPaths == CliPaths \cup {Append(PathDocs, IndexMd)}

\* what the disk holds at a path; "unreadable" is a file that stat finds
\* and readFile is refused
DiskKinds(path) ==
    IF path = PathA THEN {"file", "missing", "unreadable"}
    ELSE IF path = PathDocs THEN {"dir", "missing"}
    ELSE {"file", "missing"}

\* const {files, output = "./dist"} = context
OutputOptions == {"undefined", ""}

OutputOf(option) ==
    IF option = "undefined" THEN <<Seg(".", ""), Seg("dist", "")>> ELSE <<>>

\* sourcePath.replace(/\.md$/, ".html")
ReplaceMd(path) ==
    [path EXCEPT ![Len(path)] =
        IF path[Len(path)].ext = "md" THEN Seg(path[Len(path)].stem, "html")
        ELSE path[Len(path)]]

\* output + (output.length && output[output.length - 1] !== "/" ? "/" : "") + ...
OutputPath(output, sourcePath) == output \o ReplaceMd(sourcePath)

\* outputPath.lastIndexOf("/") > 0 ? outputPath.slice(0, outputPath.lastIndexOf("/")) : null
OutputDirectory(outputPath) ==
    IF Len(outputPath) > 1 THEN SubSeq(outputPath, 1, Len(outputPath) - 1) ELSE <<>>

\* fs.statSync(sourcePath) throws for a path that is not there
StatThrows(path) == bDisk[path] = "missing"

\* readFile(sourcePath, "utf-8") throws unless the path is a readable file
ReadThrows(path) == bDisk[path] # "file"

BuildInit ==
    /\ bFiles \in UNION {[1..n -> CliPaths] : n \in 1..MaxFiles}
    /\ bOutput \in OutputOptions
    /\ bDisk \in {d \in [DiskPaths -> {"file", "dir", "missing", "unreadable"}] :
                    /\ \A p \in DiskPaths : d[p] \in DiskKinds(p)
                    /\ d[PathDocs] = "missing" => d[Append(PathDocs, IndexMd)] = "missing"}
    /\ bBlocked \in BOOLEAN
    /\ bPc = "running"
    /\ bI = 1
    /\ bJ = 1
    /\ bSources = <<>>
    /\ bDirs = {}
    /\ bWritten = {}
    /\ bError = NoError

\* one turn of the loop over files
BuildRead ==
    /\ UNCHANGED notBuild
    /\ bPc = "running"
    /\ bI <= Len(bFiles)
    /\ LET given == bFiles[bI] IN
       IF StatThrows(given)
       THEN /\ bPc' = "threw"
            /\ bError' = [thrown |-> "Unable to read", path |-> given]
            /\ UNCHANGED <<bI, bSources>>
       ELSE LET sourcePath == IF bDisk[given] = "dir" THEN Append(given, IndexMd)
                              ELSE given
            IN IF ReadThrows(sourcePath)
               THEN /\ bPc' = "threw"
                    /\ bError' = [thrown |-> "Unable to read", path |-> sourcePath]
                    /\ UNCHANGED <<bI, bSources>>
               ELSE /\ bSources' = Append(bSources,
                            [sourcePath |-> sourcePath,
                             outputPath |-> OutputPath(OutputOf(bOutput), sourcePath),
                             content |-> sourcePath])
                    /\ bI' = bI + 1
                    /\ UNCHANGED <<bPc, bError>>
    /\ UNCHANGED <<bFiles, bOutput, bDisk, bBlocked, bJ, bDirs, bWritten>>

\* the writing starts as soon as one source is read
WritingStartsEarly == TRUE

\* sources.forEach follows the loop over files
WritingStarts == bI > Len(bFiles)

\* one call of the forEach callback
BuildWrite ==
    /\ UNCHANGED notBuild
    /\ bPc = "running"
    /\ WritingStarts
    /\ bJ <= Len(bSources)
    /\ LET outputPath == bSources[bJ].outputPath
           outputDirectory == OutputDirectory(outputPath)
       IN IF outputDirectory # <<>> /\ bBlocked
          THEN /\ bPc' = "threw"
               /\ bError' = [thrown |-> "Unable to create output directory",
                             path |-> outputDirectory]
               /\ UNCHANGED <<bJ, bDirs, bWritten>>
          ELSE /\ bDirs' = IF outputDirectory # <<>> THEN bDirs \cup {outputDirectory}
                           ELSE bDirs
               /\ bWritten' = bWritten \cup {outputPath}
               /\ bJ' = bJ + 1
               /\ UNCHANGED <<bPc, bError>>
    /\ UNCHANGED <<bFiles, bOutput, bDisk, bBlocked, bI, bSources>>

\* build returns
BuildReturn ==
    /\ UNCHANGED notBuild
    /\ bPc = "running"
    /\ bI > Len(bFiles)
    /\ bJ > Len(bSources)
    /\ bPc' = "returned"
    /\ UNCHANGED <<bFiles, bOutput, bDisk, bBlocked, bI, bJ, bSources, bDirs, bWritten, bError>>

BuildNext == BuildRead \/ BuildWrite \/ BuildReturn


(***************************************************************************)
(* The live-reload server.  A socket is new (not yet connected), open,     *)
(* closing (the server called socket.close()) or closed.  handled[s] says  *)
(* that handleWatch attached its listeners to s.  watcher[s] is the        *)
(* closure's variable (TRUE for an FSWatcher, FALSE for null) and          *)
(* active[s] counts the FSWatchers created for s and not closed.           *)
(* pending[s] holds the watch callbacks in flight: "unread" before         *)
(* readFile resolves, the hash of what it read after.  sent[s] lists the   *)
(* hash behind every reload message passed to socket.send.                 *)
(***************************************************************************)
Sockets == {"s1", "s2"}

Urls == {"/_observablehq", "/_observablehq/", "/"}

Hashes == {"h0", "h1"}

\* req.url.startsWith("/_observablehq")
IsWatchUrlByPrefix(url) == url \in {"/_observablehq", "/_observablehq/"}

\* req.url === "/_observablehq"
IsWatchUrl(url) == url = "/_observablehq"

SrvInit ==
    /\ fileHash \in Hashes
    /\ events = 0
    /\ sockStatus = [s \in Sockets |-> "new"]
    /\ sockUrl = [s \in Sockets |-> None]
    /\ handled = [s \in Sockets |-> FALSE]
    /\ watcher = [s \in Sockets |-> FALSE]
    /\ active = [s \in Sockets |-> 0]
    /\ helloHash = [s \in Sockets |-> None]
    /\ currentHash = [s \in Sockets |-> None]
    /\ pending = [s \in Sockets |-> <<>>]
    /\ sent = [s \in Sockets |-> <<>>]
    /\ threw = [s \in Sockets |-> 0]

\* Server._handleConnection(socket, req)
HandleConnection(s, url) ==
    /\ UNCHANGED notSrv
    /\ sockStatus[s] = "new"
    /\ sockUrl' = [sockUrl EXCEPT ![s] = url]
    /\ IF IsWatchUrl(url)
       THEN /\ handled' = [handled EXCEPT ![s] = TRUE]
            /\ sockStatus' = [sockStatus EXCEPT ![s] = "open"]
       ELSE /\ sockStatus' = [sockStatus EXCEPT ![s] = "closing"]
            /\ UNCHANGED handled
    /\ UNCHANGED <<fileHash, events, watcher, active, helloHash, currentHash,
                   pending, sent, threw>>

\* a hello with a watcher already there is let through
AlreadyWatchingNever(s) == FALSE

\* if (watcher) throw new Error("already watching")
AlreadyWatching(s) == watcher[s]

\* the hello messages s has handled: each one threw or created a watcher,
\* and no message follows the close that closes a watcher
HelloCount(s) == threw[s] + active[s]

\* socket.on("message"): the client sends a message of the given type
OnMessage(s, type, hash) ==
    /\ UNCHANGED notSrv
    /\ sockStatus[s] \in {"open", "closing"}
    /\ type = "hello" => HelloCount(s) < MaxMessages
    /\ IF handled[s] /\ type = "hello"
       THEN IF AlreadyWatching(s)
            THEN /\ threw' = [threw EXCEPT ![s] = threw[s] + 1]
                 /\ UNCHANGED <<watcher, active, helloHash, currentHash>>
            ELSE /\ watcher' = [watcher EXCEPT ![s] = TRUE]
                 /\ active' = [active EXCEPT ![s] = active[s] + 1]
                 /\ helloHash' = [helloHash EXCEPT ![s] = hash]
                 /\ currentHash' = [currentHash EXCEPT ![s] = hash]
                 /\ UNCHANGED threw
       ELSE UNCHANGED <<watcher, active, helloHash, currentHash, threw>>
    /\ UNCHANGED <<fileHash, events, sockStatus, sockUrl, handled, pending, sent>>

RemoveAt(seq, k) == SubSeq(seq, 1, k - 1) \o SubSeq(seq, k + 1, Len(seq))

\* the watched file is written (with the same content or another): every
\* FSWatcher not closed calls its callback, which starts readFile
FileEvent(hash) ==
    /\ UNCHANGED notSrv
    /\ events < MaxEvents
    /\ events' = events + 1
    /\ fileHash' = hash
    /\ pending' = [s \in Sockets |->
                      IF active[s] > 0 THEN Append(pending[s], "unread") ELSE pending[s]]
    /\ UNCHANGED <<sockStatus, sockUrl, handled, watcher, active, helloHash,
                   currentHash, sent, threw>>

\* const source = await readFile(filePath, "utf-8"): the read takes place
CallbackRead(s, k) ==
    /\ UNCHANGED notSrv
    /\ k \in 1..Len(pending[s])
    /\ pending[s][k] = "unread"
    /\ pending' = [pending EXCEPT ![s][k] = fileHash]
    /\ UNCHANGED <<fileHash, events, sockStatus, sockUrl, handled, watcher, active,
                   helloHash, currentHash, sent, threw>>

\* the reload goes out and currentHash stays what it was
AfterReloadKeepHash(s, hash) == currentHash[s]

\* currentHash = hash
AfterReload(s, hash) == hash

\* the callback goes on after its await: computeHash, the comparison, send
CallbackResume(s, k) ==
    /\ UNCHANGED notSrv
    /\ k \in 1..Len(pending[s])
    /\ pending[s][k] # "unread"
    /\ LET hash == pending[s][k] IN
       IF currentHash[s] # hash
       THEN /\ sent' = [sent EXCEPT ![s] = Append(sent[s], hash)]
            /\ currentHash' = [currentHash EXCEPT ![s] = AfterReload(s, hash)]
       ELSE UNCHANGED <<sent, currentHash>>
    /\ pending' = [pending EXCEPT ![s] = RemoveAt(pending[s], k)]
    /\ UNCHANGED <<fileHash, events, sockStatus, sockUrl, handled, watcher, active,
                   helloHash, threw>>

\* socket.on("close"): the socket's close event, after the client left or
\* the closing the server asked for is over
OnClose(s) ==
    /\ UNCHANGED notSrv
    /\ sockStatus[s] \in {"open", "closing"}
    /\ sockStatus' = [sockStatus EXCEPT ![s] = "closed"]
    /\ IF handled[s] /\ watcher[s]
       THEN /\ active' = [active EXCEPT ![s] = active[s] - 1]
            /\ watcher' = [watcher EXCEPT ![s] = FALSE]
       ELSE UNCHANGED <<active, watcher>>
    /\ UNCHANGED <<fileHash, events, sockUrl, handled, helloHash, currentHash,
                   pending, sent, threw>>

MessageTypes == {"hello", "ping"}

SrvNext ==
    \/ \E s \in Sockets, url \in Urls : HandleConnection(s, url)
    \/ \E s \in Sockets, type \in MessageTypes, hash \in Hashes : OnMessage(s, type, hash)
    \/ \E hash \in Hashes : FileEvent(hash)
    \/ \E s \in Sockets, k \in 1..MaxEvents : CallbackRead(s, k)
    \/ \E s \in Sockets, k \in 1..MaxEvents : CallbackResume(s, k)
    \/ \E s \in Sockets : OnClose(s)


(***************************************************************************)
(* ObservableApiClient.  One request at a time: a method is called         *)
(* (apiPc = "fetching"), fetch settles, and the method returns or throws   *)
(* (apiPc = "settled").  A response carries its status, the ok flag fetch  *)
(* derives from it (a status of 200 to 299) and whether its body is JSON.  *)
(***************************************************************************)
Methods == {"getCurrentUser", "postProject", "postDeploy", "postDeployFile",
            "postDeployUploaded"}

Statuses == {200, 201, 204, 299, 300, 301, 400, 401, 404, 500}

Response(status, json) ==
    [status |-> status, ok |-> status \in 200..299, json |-> json]

NoResponse == [none |-> TRUE]

NoOutcome == [pending |-> TRUE]

\* new HttpError("Unexpected response status", response.status)
HttpError(status) ==
    [error |-> "HttpError", message |-> "Unexpected response status", statusCode |-> status]

Thrown(error) == [kind |-> "threw", error |-> error, parsed |-> FALSE]

\* await response.json(), then the value made of it
Json(response, value) ==
    IF response.json
    THEN [kind |-> "returned", value |-> value, parsed |-> TRUE]
    ELSE [kind |-> "threw", error |-> [error |-> "SyntaxError"], parsed |-> TRUE]

Void == [kind |-> "returned", value |-> "undefined", parsed |-> FALSE]

GetCurrentUser(response) ==
    IF ~response.ok THEN Thrown(HttpError(response.status))
    ELSE Json(response, "responseJson")

PostProject(response) ==
    IF ~response.ok THEN Thrown(HttpError(response.status))
    ELSE Json(response, "responseJson.id")

PostDeploy(response) ==
    IF ~response.ok THEN Thrown(HttpError(response.status))
    ELSE Json(response, "responseJson.id")

PostDeployFile(response) ==
    IF ~response.ok THEN Thrown(HttpError(response.status))
    ELSE Void

\* the status is never looked at
PostDeployUploadedUnchecked(response) == Void

PostDeployUploaded(response) ==
    IF ~response.ok THEN Thrown(HttpError(response.status))
    ELSE Void

Settle(method, response) ==
    IF method = "getCurrentUser" THEN GetCurrentUser(response)
    ELSE IF method = "postProject" THEN PostProject(response)
    ELSE IF method = "postDeploy" THEN PostDeploy(response)
    ELSE IF method = "postDeployFile" THEN PostDeployFile(response)
    ELSE PostDeployUploaded(response)

\* this._logger.log(...)
Logs(method) ==
    IF method = "postDeployFile" THEN {"Uploading"}
    ELSE IF method = "postDeployUploaded" THEN {"Marking deploy upload complete"}
    ELSE {}

ApiInit ==
    /\ apiPc = "idle"
    /\ apiMethod = None
    /\ apiResponse = NoResponse
    /\ apiParsed = FALSE
    /\ apiOutcome = NoOutcome
    /\ apiLog = {}

\* a method is called and goes as far as its await fetch(...); for
\* postDeployFile, fs.readFile(filePath) comes first and may throw
ApiCall(method, fileReadable) ==
    /\ UNCHANGED notApi
    /\ apiPc \in {"idle", "settled"}
    /\ apiMethod' = method
    /\ apiLog' = apiLog \cup Logs(method)
    /\ apiResponse' = NoResponse
    /\ apiParsed' = FALSE
    /\ IF method = "postDeployFile" /\ ~fileReadable
       THEN /\ apiPc' = "settled"
            /\ apiOutcome' = Thrown([error |-> "ENOENT"])
       ELSE /\ apiPc' = "fetching"
            /\ apiOutcome' = NoOutcome

\* fetch resolves with a response
FetchResolves(status, json) ==
    /\ UNCHANGED notApi
    /\ apiPc = "fetching"
    /\ LET response == Response(status, json)
           outcome == Settle(apiMethod, response)
       IN /\ apiResponse' = response
          /\ apiParsed' = outcome.parsed
          /\ apiOutcome' = outcome
    /\ apiPc' = "settled"
    /\ UNCHANGED <<apiMethod, apiLog>>

\* fetch rejects: no response
FetchRejects ==
    /\ UNCHANGED notApi
    /\ apiPc = "fetching"
    /\ apiOutcome' = Thrown([error |-> "TypeError"])
    /\ apiPc' = "settled"
    /\ UNCHANGED <<apiMethod, apiResponse, apiParsed, apiLog>>

ApiNext ==
    \/ \E method \in Methods, fileReadable \in BOOLEAN : ApiCall(method, fileReadable)
    \/ \E status \in Statuses, json \in BOOLEAN : FetchResolves(status, json)
    \/ FetchRejects

(***************************************************************************)
(* The CLI entry point.  argv is the command line as util.parseArgs reads  *)
(* it: the flags, the option values (None for an option not given), the    *)
(* positionals, and whether it holds an option parseArgs does not know     *)
(* (parseArgs is strict and throws on one).  The disk build meets is       *)
(* chosen when build starts.                                               *)
(***************************************************************************)
NoContext == [made |-> FALSE]

NoServer == [started |-> FALSE]

\* mExit lists the codes process.exit was called with
NoExit == <<>>

PortOptions == {None, "8080"}

HostnameOptions == {None, "0.0.0.0"}

\* process.env.PORT, process.env.HOSTNAME
EnvPorts == {None, "4000"}

EnvHostname == None

Argvs ==
    [serve : BOOLEAN, build : BOOLEAN, unknown : BOOLEAN,
     output : {None, ""}, port : PortOptions, hostname : HostnameOptions,
     envPort : EnvPorts,
     files : UNION {[1..n -> CliPaths] : n \in 0..MaxFiles}]

\* +values.port, +process.env.PORT
ToNumber(text) == IF text = "8080" THEN 8080 ELSE IF text = "4000" THEN 4000 ELSE 0

\* a string is truthy unless empty
Truthy(text) == text # None /\ text # ""

makeCommandContext(a) ==
    [serve |-> a.serve,
     build |-> a.build,
     output |-> a.output,
     hostname |-> IF a.hostname # None THEN a.hostname
                  ELSE IF EnvHostname # None THEN EnvHostname
                  ELSE "127.0.0.1",
     port |-> IF Truthy(a.port) THEN ToNumber(a.port)
              ELSE IF Truthy(a.envPort) THEN ToNumber(a.envPort)
              ELSE 3000,
     files |-> a.files]

\* --build is looked at before --serve
DispatchBuildFirst(context) ==
    IF context.build
    THEN IF Len(context.files) = 0 THEN "usage" ELSE "build"
    ELSE IF context.serve THEN "serve" ELSE "usage"

\* the branch the entry point takes
Dispatch(context) ==
    IF context.serve THEN "serve"
    ELSE IF context.build
         THEN IF Len(context.files) = 0 THEN "usage" ELSE "build"
         ELSE "usage"

Disks ==
    {d \in [DiskPaths -> {"file", "dir", "missing", "unreadable"}] :
        /\ \A p \in DiskPaths : d[p] \in DiskKinds(p)
        /\ d[PathDocs] = "missing" => d[Append(PathDocs, IndexMd)] = "missing"}

MainInit ==
    /\ argv \in Argvs
    /\ mPc = "start"
    /\ mContext = NoContext
    /\ mServer = NoServer
    /\ mUsage = FALSE
    /\ mExit = NoExit
    /\ bFiles = <<>> /\ bOutput = "" /\ bDisk = <<>> /\ bBlocked = FALSE
    /\ bPc = "idle" /\ bI = 1 /\ bJ = 1 /\ bSources = <<>> /\ bDirs = {}
    /\ bWritten = {} /\ bError = NoError

\* const context = makeCommandContext(): parseArgs throws on an option it
\* does not know, and the entry point's promise rejects
MainParse ==
    /\ UNCHANGED notMain
    /\ mPc = "start"
    /\ IF argv.unknown
       THEN /\ mPc' = "rejected"
            /\ UNCHANGED mContext
       ELSE /\ mPc' = "parsed"
            /\ mContext' = makeCommandContext(argv)
    /\ UNCHANGED <<argv, mServer, mUsage, mExit, buildVars>>

\* new Server(context).start()
MainServe ==
    /\ UNCHANGED notMain
    /\ mPc = "parsed"
    /\ Dispatch(mContext) = "serve"
    /\ mServer' = [started |-> TRUE, hostname |-> mContext.hostname, port |-> mContext.port]
    /\ mPc' = "serving"
    /\ UNCHANGED <<argv, mContext, mUsage, mExit, buildVars>>

\* console.error(USAGE); process.exit(1)
MainUsage ==
    /\ UNCHANGED notMain
    /\ mPc = "parsed"
    /\ Dispatch(mContext) = "usage"
    /\ mUsage' = TRUE
    /\ mExit' = <<1>>
    /\ mPc' = "exited"
    /\ UNCHANGED <<argv, mContext, mServer, buildVars>>

\* await build(context): the call, as far as build's first await
MainBuild(disk, blocked) ==
    /\ UNCHANGED notMain
    /\ mPc = "parsed"
    /\ Dispatch(mContext) = "build"
    /\ bFiles' = mContext.files
    /\ bOutput' = IF mContext.output = None THEN "undefined" ELSE mContext.output
    /\ bDisk' = disk
    /\ bBlocked' = blocked
    /\ bPc' = "running"
    /\ mPc' = "building"
    /\ UNCHANGED <<argv, mContext, mServer, mUsage, mExit, bI, bJ, bSources, bDirs,
                   bWritten, bError>>

\* build has returned: process.exit(0); or it has thrown, and the entry
\* point's promise rejects
MainBuildSettled ==
    /\ UNCHANGED notMain
    /\ mPc = "building"
    /\ bPc \in {"returned", "threw"}
    /\ IF bPc = "returned"
       THEN mExit' = <<0>> /\ mPc' = "exited"
       ELSE mPc' = "rejected" /\ UNCHANGED mExit
    /\ UNCHANGED <<argv, mContext, mServer, mUsage, buildVars>>

MainNext ==
    \/ MainParse
    \/ MainServe
    \/ MainUsage
    \/ \E disk \in Disks, blocked \in BOOLEAN : MainBuild(disk, blocked)
    \/ BuildRead
    \/ BuildWrite
    \/ BuildReturn
    \/ MainBuildSettled

(***************************************************************************)
(* The specifications: each part runs alone, the others at rest.           *)
(***************************************************************************)
MainRest ==
    /\ argv = <<>> /\ mPc = "off" /\ mContext = NoContext /\ mServer = NoServer
    /\ mUsage = FALSE /\ mExit = NoExit

TrRest == tSrc = <<>> /\ tCalls = 0 /\ tFirst = <<>> /\ tLast = NoCall

SnapRest == envCI = None /\ inputs = <<>> /\ outDir = <<>> /\ lastTest = NoTest

BuildRest ==
    /\ bFiles = <<>> /\ bOutput = "" /\ bDisk = <<>> /\ bBlocked = FALSE
    /\ bPc = "returned" /\ bI = 1 /\ bJ = 1 /\ bSources = <<>> /\ bDirs = {}
    /\ bWritten = {} /\ bError = NoError

SrvRest ==
    /\ fileHash = "h0" /\ events = 0 /\ sockStatus = <<>> /\ sockUrl = <<>>
    /\ handled = <<>> /\ watcher = <<>> /\ active = <<>> /\ helloHash = <<>>
    /\ currentHash = <<>> /\ pending = <<>> /\ sent = <<>> /\ threw = <<>>

ApiRest ==
    /\ apiPc = "off" /\ apiMethod = None /\ apiResponse = NoResponse
    /\ apiParsed = FALSE /\ apiOutcome = NoOutcome /\ apiLog = {}

InitTranspile == TrInit /\ SnapRest /\ BuildRest /\ SrvRest /\ ApiRest /\ MainRest

SpecTranspile == InitTranspile /\ [][TrNext]_vars

InitSnapshot == SnapInit /\ TrRest /\ BuildRest /\ SrvRest /\ ApiRest /\ MainRest

SpecSnapshot == InitSnapshot /\ [][SnapNext]_vars

InitBuild == BuildInit /\ TrRest /\ SnapRest /\ SrvRest /\ ApiRest /\ MainRest

SpecBuild == InitBuild /\ [][BuildNext]_vars

InitServer == SrvInit /\ TrRest /\ SnapRest /\ BuildRest /\ ApiRest /\ MainRest

SpecServer == InitServer /\ [][SrvNext]_vars

InitApi == ApiInit /\ TrRest /\ SnapRest /\ BuildRest /\ SrvRest /\ MainRest

SpecApi == InitApi /\ [][ApiNext]_vars

InitMain == MainInit /\ TrRest /\ SnapRest /\ SrvRest /\ ApiRest

SpecMain == InitMain /\ [][MainNext]_vars

(***************************************************************************)
(* The snapshot test's claims (SpecSnapshot).                              *)
(***************************************************************************)
\* the last test run found an expected file that differs from the output
LastTestMismatch ==
    /\ lastTest.ran
    /\ lastTest.actual # Absent
    /\ lastTest.before[File(lastTest.name.base, lastTest.name.changed)] # Absent
    /\ lastTest.before[File(lastTest.name.base, lastTest.name.changed)] # lastTest.actual

\* C1: a fixture whose expected file exists and differs from the transpiled
\* output fails with the assertion "<name> must match snapshot", the output
\* is in <name>-changed.js, and the expected file is what it was.
C1_MismatchFailsAndKeepsBaseline ==
    LastTestMismatch =>
        /\ lastTest.outcome = "failed"
        /\ lastTest.error = [assertion |-> "must match snapshot", name |-> lastTest.name]
        /\ outDir[File(lastTest.name.base, lastTest.name.changed + 1)] = lastTest.actual
        /\ outDir[File(lastTest.name.base, lastTest.name.changed)]
              = lastTest.before[File(lastTest.name.base, lastTest.name.changed)]

C1_Witness ==
    /\ LastTestMismatch
    /\ lastTest.before[File(lastTest.name.base, lastTest.name.changed + 1)] # lastTest.actual
    /\ outDir[File(lastTest.name.base, lastTest.name.changed + 1)] = lastTest.actual

\* C2: with CI = "true" no run of a fixture test (match, mismatch or missing
\* expected file) creates, overwrites or deletes a file of test/output.
C2_NoOutputChangeInCI ==
    (lastTest.ran /\ envCI = "true" /\ lastTest.actual # Absent) => outDir = lastTest.before

NamesOf(seq) == {seq[i].name : i \in 1..Len(seq)}

\* C4: for an input that transpiles, no name is both in declaredBindings and
\* in freeReferences.
C4_DeclaredAndFreeDisjoint ==
    (tLast # NoCall /\ tLast.result.ok) =>
        NamesOf(tLast.result.declaredBindings) \cap NamesOf(tLast.result.freeReferences) = {}

C4_Witness ==
    /\ tLast # NoCall
    /\ tLast.result.ok
    /\ tLast.result.freeReferences # <<>>
    /\ \E i \in 1..Len(tSrc) :
          /\ tSrc[i].kind = "expr"
          /\ tSrc[i].expr.kind = "ref"
          /\ tSrc[i].expr.name \in NamesOf(tLast.result.declaredBindings)

ContainsTopLevelAwait(source) ==
    \E i \in 1..Len(source) :
        source[i].kind \in {"expr", "let"} /\ source[i].expr.kind = "await"

ContainsForAwait(source) == \E i \in 1..Len(source) : source[i].kind = "forawait"

ContainsStaticImport(source) == \E i \in 1..Len(source) : source[i].kind = "import"

\* C5: isAsync is true iff the cell has a top-level await, a top-level
\* for-await or a static import; the wrapper is async exactly then.
C5_AsyncIffAwaitOrImport ==
    (tLast # NoCall /\ tLast.result.ok) =>
        /\ tLast.result.isAsync <=>
              \/ ContainsTopLevelAwait(tSrc)
              \/ ContainsForAwait(tSrc)
              \/ ContainsStaticImport(tSrc)
        /\ tLast.result.generatedSource.async = tLast.result.isAsync

C5_Witness ==
    /\ tLast # NoCall
    /\ tLast.result.ok
    /\ tLast.result.isAsync
    /\ ContainsStaticImport(tSrc)
    /\ ~ContainsTopLevelAwait(tSrc)
    /\ \E i \in 1..Len(tSrc) : tSrc[i].kind = "expr" /\ tSrc[i].expr.kind = "fnawait"

(***************************************************************************)
(* build's claim (SpecBuild).                                              *)
(***************************************************************************)
\* the path given on the command line cannot be stat'ed or read
CannotBeRead(given) ==
    \/ bDisk[given] = "missing"
    \/ bDisk[given] = "unreadable"
    \/ bDisk[given] = "dir" /\ bDisk[given \o <<IndexMd>>] # "file"

\* C6: if one of the listed paths cannot be stat'ed or read, build never
\* returns, creates no directory and writes no file, and what it throws is
\* "Unable to read"; whenever it throws that, nothing was created or written.
C6_ReadsAllBeforeWriting ==
    /\ (\E i \in 1..Len(bFiles) : CannotBeRead(bFiles[i])) =>
          /\ bDirs = {} /\ bWritten = {}
          /\ bPc # "returned"
          /\ bPc = "threw" => bError.thrown = "Unable to read"
    /\ (bPc = "threw" /\ bError.thrown = "Unable to read") =>
          bDirs = {} /\ bWritten = {}

C6_Witness ==
    /\ bPc = "threw"
    /\ bError.thrown = "Unable to read"
    /\ Len(bSources) >= 1
    /\ bDirs = {} /\ bWritten = {}

(***************************************************************************)
(* The server's claims (SpecServer).                                       *)
(***************************************************************************)
OneWatcherAtMost ==
    \A s \in Sockets :
        /\ active[s] <= 1
        /\ watcher[s] <=> active[s] = 1
        /\ active[s] = 1 => helloHash[s] # None
        /\ sockStatus[s] = "closed" => active[s] = 0

\* C7: a socket has at most one FSWatcher at any time, the one its variable
\* holds: a hello while it is held throws and creates none, and the close
\* event closes it and leaves the variable null.
C7_AtMostOneWatcher ==
    /\ []OneWatcherAtMost
    /\ [][\A s \in Sockets :
            /\ threw'[s] # threw[s] =>
                  watcher[s] /\ active'[s] = active[s] /\ watcher'[s]
            /\ active'[s] > active[s] => ~watcher[s] /\ sockStatus[s] # "closed"]_vars

C7_Witness ==
    \E s \in Sockets : threw[s] >= 1 /\ sockStatus[s] = "closed" /\ active[s] = 0

\* the hash currentHash holds after the reloads sent so far
LastKnownHash(s) == IF sent[s] = <<>> THEN helloHash[s] ELSE sent[s][Len(sent[s])]

ReloadsFollowHash ==
    \A s \in Sockets :
        /\ helloHash[s] # None => currentHash[s] = LastKnownHash(s)
        /\ sent[s] # <<>> => sent[s][1] # helloHash[s]
        /\ \A i \in 1..(Len(sent[s]) - 1) : sent[s][i] # sent[s][i + 1]

\* C8: a reload is sent exactly when a watch callback computes a hash other
\* than currentHash, which starts as the hello's hash and becomes the new
\* hash with each reload; so no two consecutive reloads of a socket are for
\* the same hash.
C8_ReloadExactlyOnNewHash ==
    /\ []ReloadsFollowHash
    /\ [][\A s \in Sockets :
            /\ sent'[s] # sent[s] =>
                  \E k \in 1..Len(pending[s]) :
                      /\ pending[s][k] \notin {"unread", currentHash[s]}
                      /\ sent'[s] = Append(sent[s], pending[s][k])
            /\ Len(pending'[s]) < Len(pending[s]) =>
                  (sent'[s] # sent[s] <=>
                      \E k \in 1..Len(pending[s]) :
                          /\ pending'[s] = RemoveAt(pending[s], k)
                          /\ pending[s][k] # currentHash[s])]_vars

C8_Witness ==
    \E s \in Sockets :
        /\ Len(sent[s]) = 2
        /\ events = 2
        /\ sent[s][2] = helloHash[s]

\* C9: only a connection whose URL is exactly "/_observablehq" is watched;
\* any other is closed at once, never has a watcher and is never sent a
\* message.
C9_OnlyExactUrlIsWatched ==
    \A s \in Sockets :
        /\ handled[s] => sockUrl[s] = "/_observablehq"
        /\ (sockStatus[s] # "new" /\ sockUrl[s] # "/_observablehq") =>
              /\ sockStatus[s] \in {"closing", "closed"}
              /\ ~handled[s] /\ ~watcher[s] /\ active[s] = 0
              /\ pending[s] = <<>> /\ sent[s] = <<>>

C9_Witness ==
    \E s, r \in Sockets :
        /\ sockUrl[s] = "/_observablehq/"
        /\ sockStatus[s] = "closing"
        /\ sockUrl[r] = "/_observablehq"
        /\ sent[r] # <<>>

(***************************************************************************)
(* The API client's claim (SpecApi).                                       *)
(***************************************************************************)
\* C10: whichever method was called, a response that is not ok makes it
\* throw an HttpError with the response's status, without parsing the body;
\* it returns only for a response that is ok.
C10_NotOkThrowsHttpError ==
    apiPc = "settled" =>
        /\ (apiResponse # NoResponse /\ ~apiResponse.ok) =>
              /\ apiOutcome.kind = "threw"
              /\ apiOutcome.error.error = "HttpError"
              /\ apiOutcome.error.statusCode = apiResponse.status
              /\ ~apiParsed
        /\ apiOutcome.kind = "returned" => (apiResponse # NoResponse /\ apiResponse.ok)

C10_Witness ==
    /\ apiPc = "settled"
    /\ apiMethod = "postDeployUploaded"
    /\ apiResponse # NoResponse
    /\ apiResponse.status = 404
    /\ apiOutcome.kind = "threw"

(***************************************************************************)
(* The entry point's claim (SpecMain).                                     *)
(***************************************************************************)
\* the entry point is past its dispatch
Dispatched == mPc \in {"serving", "building", "exited"} \/ (mPc = "rejected" /\ ~argv.unknown)

\* the entry point has nothing left to run
MainOver == mPc \in {"serving", "exited", "rejected"}

BuildNotRun == bPc = "idle" /\ bDirs = {} /\ bWritten = {}

\* C11 as stated, for a command line parseArgs accepts: with --serve the
\* server is started, build is not run and the entry point does not exit;
\* otherwise with --build and a file, build runs to completion and the
\* process exits with code 0; otherwise the usage is printed and the process
\* exits with code 1, nothing built or served.
C11_AsStated ==
    (MainOver /\ ~argv.unknown) =>
        IF argv.serve
        THEN mServer # NoServer /\ BuildNotRun /\ mExit = NoExit
        ELSE IF argv.build /\ Len(argv.files) > 0
        THEN bPc = "returned" /\ mExit = <<0>>
        ELSE mUsage /\ mExit = <<1>> /\ BuildNotRun /\ mServer = NoServer

\* C11, amended: for a command line util.parseArgs accepts, with --serve
\* Server.start is called, build is not run and the entry point does not
\* exit; otherwise with --build and a file, build is run on the files, and
\* the process exits with code 0 exactly when build returns: if build
\* throws, the entry point exits with no code, its promise rejected;
\* otherwise the usage is printed and the process exits with code 1,
\* nothing built or served.
C11_DispatchPriority ==
    (Dispatched /\ ~argv.unknown) =>
        IF argv.serve
        THEN /\ mServer # NoServer /\ BuildNotRun /\ mExit = NoExit /\ ~mUsage
             /\ mPc = "serving"
        ELSE IF argv.build /\ Len(argv.files) > 0
        THEN /\ bPc # "idle" /\ bFiles = argv.files
             /\ mServer = NoServer /\ ~mUsage
             /\ mExit \in {NoExit, <<0>>}
             /\ mExit = <<0>> <=> mPc = "exited"
             /\ mPc = "exited" => bPc = "returned"
             /\ mPc = "rejected" => bPc = "threw"
             /\ MainOver => mPc \in {"exited", "rejected"}
        ELSE /\ mUsage /\ mExit = <<1>> /\ BuildNotRun /\ mServer = NoServer
             /\ mPc = "exited"

C11_Witness ==
    /\ argv.serve /\ argv.build /\ Len(argv.files) > 0 /\ ~argv.unknown
    /\ mPc = "serving"
    /\ mServer # NoServer
    /\ BuildNotRun

=============================================================================
